---------------------------- MODULE Spec2Model ----------------------------
(***************************************************************************)
(* Frame-to-glyph-grid conversion of ascii-maker.                          *)
(*                                                                         *)
(* Two versions of the converter are in the repository:                    *)
(*   "color" - src/main.ts: imageToAsciiWithColor (brightness-only glyph   *)
(*             selection, averaged cell colors);                           *)
(*   "edge"  - src/unnamed/part_001: imageToAscii (gaussianBlur +          *)
(*             cannyEdgeDetection + edge/brightness glyph selection).      *)
(*                                                                         *)
(* Arithmetic.  The code computes in IEEE doubles; the model computes the  *)
(* same expressions in exact integer arithmetic on scaled values:          *)
(*   - luminance in thousandths (299 r + 587 g + 114 b);                   *)
(*   - blurred luminance in 1/256000 (the kernel sum before the division   *)
(*     by kernelSum = 256);                                                *)
(*   - Sobel gradients in 1/256000;                                        *)
(*   - gradient magnitude (a square root) in a per-field unit q/256000,    *)
(*     rounded down, but never rounded down to 0 when it is not 0 (only    *)
(*     ratios of magnitudes of one field are ever used);                   *)
(*   - normalized edge strength in hundredths, rounded down;               *)
(*   - NaN (0/0) as the value NaN, the glyph charSet[NaN] as "undefined".  *)
(*                                                                         *)
(* Specifications.                                                         *)
(*   Spec       - the frame loop of either version on one frame;           *)
(*   SpecGray   - main.ts on two uniform gray frames;                      *)
(*   SpecConfig - main.ts under configurations with short character sets   *)
(*                or requested sizes above the source's;                   *)
(*   SpecRun    - a whole run of convert(), stage by stage, on up to       *)
(*                MaxFrames frame files of which one may be unreadable;    *)
(*   SpecLong   - the frame loop of main.ts on the ManyFrames frames of a  *)
(*                long video.                                              *)
(***************************************************************************)
EXTENDS Integers, Sequences, FiniteSets, TLC

VARIABLES
    variant,    \* "color" (src/main.ts) or "edge" (src/unnamed/part_001)
    options,    \* this.options: outputWidth, outputHeight, charSet, preserveAspectRatio
    frames,     \* the frame images of tempFramesDir, in sorted order
    i,          \* loop index of convertFramesToAscii
    out,        \* the images written to asciiFramesDir: out[k] is ascii-000(k-1).png
    cells,      \* per-cell locals of the last conversion (isExtreme, brightness,
                \* charIndex; block: the pixels <<y, x>> the sampling loops visited)
    blurred,    \* imageToAscii's local `blurred` of the last conversion
    magnitude,  \* cannyEdgeDetection's `result` before its normalization loop
    edges,      \* imageToAscii's local `edges` of the last conversion
    readable,   \* readable[k]: loadImage succeeds on the k-th extracted frame file
    listing,    \* convertFramesToAscii's `frames`: the sorted directory listing, as
                \* the extraction ordinals of the files (frame-0001.png is 1)
    keepTemp,   \* options.tempDir.includes("keep-temp")
    pc,         \* position of convert(): the stage to run next, "frameLoop" inside
                \* convertFramesToAscii, "returned" or "thrown" at its end
    ran         \* the stages convert() has started, each with its status

vars == <<variant, options, frames, i, out, cells, blurred, magnitude, edges,
          readable, listing, keepTemp, pc, ran>>

-----------------------------------------------------------------------------
(* Bounds of the model *)

MaxOut == 2         \* largest requested outputWidth / outputHeight
MaxFrames == 3      \* most frame files of a whole run of convert()
ManyFrames == 10000 \* frame files of a long video (11 minutes at 15 frames per second)
LongDone == 999     \* iterations of the frame loop already run on the long video

-----------------------------------------------------------------------------
(* Small helpers *)

Min(a, b) == IF a < b THEN a ELSE b
Max(a, b) == IF a > b THEN a ELSE b
Abs(a) == IF a < 0 THEN 0 - a ELSE a

RECURSIVE SumSet(_, _)
SumSet(S, f) ==
    IF S = {} THEN 0
    ELSE LET e == CHOOSE e \in S : TRUE
         IN  f[e] + SumSet(S \ {e}, f)

RECURSIVE MaxSet(_, _)
MaxSet(S, f) ==
    IF S = {} THEN 0
    ELSE LET e == CHOOSE e \in S : TRUE
         IN  Max(f[e], MaxSet(S \ {e}, f))

-----------------------------------------------------------------------------
(* Source rasters.  px[y][x] = <<r, g, b>>; alpha is never read. *)

Black == <<0, 0, 0>>
White == <<255, 255, 255>>
Gray(g) == <<g, g, g>>
Red == <<255, 0, 0>>
Blue == <<0, 0, 255>>

Uniform(w, h, c) ==
    [width |-> w, height |-> h,
     px |-> [y \in 0..(h - 1) |-> [x \in 0..(w - 1) |-> c]]]

\* left half a, right half b
VSplit(w, h, a, b) ==
    [width |-> w, height |-> h,
     px |-> [y \in 0..(h - 1) |-> [x \in 0..(w - 1) |->
                IF 2 * x < w THEN a ELSE b]]]

\* background a with the single pixel (w div 2, h div 2) of color b
Spot(w, h, a, b) ==
    [width |-> w, height |-> h,
     px |-> [y \in 0..(h - 1) |-> [x \in 0..(w - 1) |->
                IF x = w \div 2 /\ y = h \div 2 THEN b ELSE a]]]

IsPureBW(p) == p = Black \/ p = White

-----------------------------------------------------------------------------
(* Character sets, as sequences of glyphs; charSet[k] of the code is       *)
(* CharAt(cs, k).                                                          *)

ClassicSet == <<"@", "%", "#", "*", "+", "=", "-", ":", ".", " ">>
MinimalSet == <<"a", "b", "c", "d", " ">>   \* the README's 5-glyph block set
ShortSet == <<"#", ".", " ">>
\* the 22-glyph box-drawing set of part_001; glyph names stand for the glyphs
DenseSet == <<"g00", "g01", "g02", "g03", "g04", "g05", "g06", "g07", "g08",
              "g09", "g10", "g11", "g12", "g13", "g14", "g15", "g16", "g17",
              "g18", "g19", "g20", " ">>

\* JavaScript string indexing: undefined outside 0..length-1 and for NaN
NaN == -1
CharAt(cs, k) == IF k # NaN /\ k >= 0 /\ k < Len(cs) THEN cs[k + 1] ELSE "undefined"

-----------------------------------------------------------------------------
(* Block sampling, shared by both versions *)

\* faulty variant: Math.ceil instead of Math.floor
StepOfCeil(n, d) == IF d > 0 THEN (n + d - 1) \div d ELSE 0

\* Math.floor(image.width / width); Infinity (width = 0) is never used: no cell exists
StepOf(n, d) == IF d > 0 THEN n \div d ELSE 0

\* the pixels <<py, px>> visited by the sy/sx loops of cell (x, y)
CellBlock(image, x, y, stepX, stepY) ==
    {<<py, px>> \in ((y * stepY)..(Min(y * stepY + stepY, image.height) - 1))
                    \X ((x * stepX)..(Min(x * stepX + stepX, image.width) - 1)) : TRUE}

\* 0.299 r + 0.587 g + 0.114 b, in thousandths
Luma1000(p) == 299 * p[1] + 587 * p[2] + 114 * p[3]

\* the isExtreme flag after the loops
IsExtremeBlock(image, B) == \A c \in B : IsPureBW(image.px[c[1]][c[2]])

\* sum of the brightness of the block's pixels, in thousandths
BrightnessSum(image, B) ==
    SumSet(B, [c \in B |-> Luma1000(image.px[c[1]][c[2]])])

\* faulty variant: pixelCount one too large (counted from 1)
RoundDivCountPlusOne(total, count) ==
    IF count = 0 THEN NaN ELSE (2 * total + count + 1) \div (2 * (count + 1))

\* Math.round(total / pixelCount); NaN for pixelCount = 0
RoundDiv(total, count) ==
    IF count = 0 THEN NaN ELSE (2 * total + count) \div (2 * count)

ChannelSum(image, B, ch) == SumSet(B, [c \in B |-> image.px[c[1]][c[2]][ch]])

\* faulty variant: the thresholds taken inclusive (brightness <= 5 || brightness >= 250)
SuppressedInclusive(isExtreme, brightSum, count) ==
    \/ isExtreme
    \/ brightSum <= 5000 * count \/ count = 0
    \/ brightSum >= 250000 * count

\* faulty variant: the isExtreme test dropped from the suppression condition
SuppressedNoExtreme(isExtreme, brightSum, count) ==
    \/ brightSum < 5000 * count \/ count = 0
    \/ brightSum > 250000 * count

\* if (isExtreme || brightness < 5 || brightness > 250), brightness the block mean
\* (0 when pixelCount is 0)
Suppressed(isExtreme, brightSum, count) ==
    \/ isExtreme
    \/ brightSum < 5000 * count \/ count = 0
    \/ brightSum > 250000 * count

-----------------------------------------------------------------------------
(* src/main.ts: imageToAsciiWithColor *)

\* faulty variant: the ramp inverted (brighter blocks take earlier glyphs)
BrightnessCharIndexInverted(brightSum, count, len) ==
    (len - 2) - ((brightSum * (len - 2)) \div (255000 * count))

\* Math.floor((brightness / 255) * (charSet.length - 2)) + 1
BrightnessCharIndex(brightSum, count, len) ==
    ((brightSum * (len - 2)) \div (255000 * count)) + 1

\* faulty variant: colors[y][x] assigned after the `continue`, so a suppressed cell keeps
\* the {r: 0, g: 0, b: 0} the array was filled with
ColorCellColorAfterContinue(image, x, y, stepX, stepY, charSet) ==
    LET B == CellBlock(image, x, y, stepX, stepY)
        count == Cardinality(B)
        brightSum == BrightnessSum(image, B)
        isExtreme == IsExtremeBlock(image, B)
        suppressed == Suppressed(isExtreme, brightSum, count)
        color == IF suppressed THEN [r |-> 0, g |-> 0, b |-> 0]
                 ELSE [r |-> RoundDiv(ChannelSum(image, B, 1), count),
                       g |-> RoundDiv(ChannelSum(image, B, 2), count),
                       b |-> RoundDiv(ChannelSum(image, B, 3), count)]
        charIndex == IF suppressed THEN 0
                     ELSE BrightnessCharIndex(brightSum, count, Len(charSet))
    IN  [isExtreme |-> isExtreme, brightSum |-> brightSum, pixelCount |-> count,
         block |-> B,
         suppressed |-> suppressed, charIndex |-> charIndex, color |-> color,
         char |-> IF suppressed THEN " " ELSE CharAt(charSet, charIndex)]

\* one iteration of the x loop: the cell's locals, its color and its glyph.
\* charIndex is computed only past the `continue` (0 stands for "not computed").
ColorCell(image, x, y, stepX, stepY, charSet) ==
    LET B == CellBlock(image, x, y, stepX, stepY)
        count == Cardinality(B)
        brightSum == BrightnessSum(image, B)
        isExtreme == IsExtremeBlock(image, B)
        color == [r |-> RoundDiv(ChannelSum(image, B, 1), count),
                  g |-> RoundDiv(ChannelSum(image, B, 2), count),
                  b |-> RoundDiv(ChannelSum(image, B, 3), count)]
        suppressed == Suppressed(isExtreme, brightSum, count)
        charIndex == IF suppressed THEN 0
                     ELSE BrightnessCharIndex(brightSum, count, Len(charSet))
    IN  [isExtreme |-> isExtreme, brightSum |-> brightSum, pixelCount |-> count,
         block |-> B,
         suppressed |-> suppressed, charIndex |-> charIndex, color |-> color,
         char |-> IF suppressed THEN " " ELSE CharAt(charSet, charIndex)]

imageToAsciiWithColor(image, width, height, charSet) ==
    LET stepX == StepOf(image.width, width)
        stepY == StepOf(image.height, height)
    IN  [y \in 0..(height - 1) |-> [x \in 0..(width - 1) |->
            ColorCell(image, x, y, stepX, stepY, charSet)]]

-----------------------------------------------------------------------------
(* convertImageToAscii: the effective grid size *)

\* faulty variant: the halving for the glyph footprint (twice as tall as wide) forgotten
GridSizeNoHalving(image, opts) ==
    IF opts.preserveAspectRatio
    THEN LET h == (opts.outputWidth * image.height) \div image.width
         IN  IF h > opts.outputHeight
             THEN [width |-> (opts.outputHeight * image.width) \div image.height,
                   height |-> opts.outputHeight]
             ELSE [width |-> opts.outputWidth, height |-> h]
    ELSE [width |-> opts.outputWidth, height |-> opts.outputHeight]

\* let width/height = options; if preserveAspectRatio: height = floor(width /
\* aspectRatio / 2), and if that exceeds outputHeight: height = outputHeight,
\* width = floor(height * aspectRatio * 2).  aspectRatio = image.width / image.height.
GridSize(image, opts) ==
    IF opts.preserveAspectRatio
    THEN LET h == (opts.outputWidth * image.height) \div (2 * image.width)
         IN  IF h > opts.outputHeight
             THEN [width |-> (opts.outputHeight * image.width * 2) \div image.height,
                   height |-> opts.outputHeight]
             ELSE [width |-> opts.outputWidth, height |-> h]
    ELSE [width |-> opts.outputWidth, height |-> opts.outputHeight]

-----------------------------------------------------------------------------
(* src/unnamed/part_001: gaussianBlur *)

Kernel ==
    << <<1, 4, 6, 4, 1>>,
       <<4, 16, 24, 16, 4>>,
       <<6, 24, 36, 24, 6>>,
       <<4, 16, 24, 16, 4>>,
       <<1, 4, 6, 4, 1>> >>

\* the grayscale array, in thousandths
Grayscale(image) ==
    [y \in 0..(image.height - 1) |-> [x \in 0..(image.width - 1) |->
        Luma1000(image.px[y][x])]]

\* sum over ky, kx of data[y + ky - 2][x + kx - 2] * kernel[ky][kx]
BlurSum(data, y, x) ==
    SumSet((0..4) \X (0..4),
           [k \in (0..4) \X (0..4) |->
               data[y + k[1] - 2][x + k[2] - 2] * Kernel[k[1] + 1][k[2] + 1]])

\* result[y][x] = sum / kernelSum for 2 <= y < height - 2, 2 <= x < width - 2, else
\* the 0 the array was filled with.  The result is in 1/256 of the unit of data:
\* the division by kernelSum = 256 is the change of unit.
gaussianBlur(data, width, height) ==
    [y \in 0..(height - 1) |-> [x \in 0..(width - 1) |->
        IF y >= 2 /\ y < height - 2 /\ x >= 2 /\ x < width - 2
        THEN BlurSum(data, y, x)
        ELSE 0]]

-----------------------------------------------------------------------------
(* src/unnamed/part_001: cannyEdgeDetection *)

SobelX == << <<-1, 0, 1>>, <<-2, 0, 2>>, <<-1, 0, 1>> >>
SobelY == << <<-1, -2, -1>>, <<0, 0, 0>>, <<1, 2, 1>> >>

Gradient(data, y, x, sobel) ==
    SumSet((0..2) \X (0..2),
           [k \in (0..2) \X (0..2) |->
               data[y + k[1] - 1][x + k[2] - 1] * sobel[k[1] + 1][k[2] + 1]])

\* largest r in lo..hi with r * r <= n
RECURSIVE ISqrtIn(_, _, _)
ISqrtIn(n, lo, hi) ==
    IF lo >= hi THEN lo
    ELSE LET mid == (lo + hi + 1) \div 2
         IN  IF mid * mid <= n THEN ISqrtIn(n, mid, hi) ELSE ISqrtIn(n, lo, mid - 1)

\* Math.sqrt(gx * gx + gy * gy) in units of q (gx, gy divided by q first), rounded
\* down, and at least 1 unless gx = gy = 0
Magnitude(gx, gy, q) ==
    IF gx = 0 /\ gy = 0 THEN 0
    ELSE LET ax == Abs(gx) \div q
             ay == Abs(gy) \div q
         IN  Max(1, ISqrtIn(ax * ax + ay * ay, 0, 46340))

IsInterior(y, x, width, height) ==
    y >= 1 /\ y < height - 1 /\ x >= 1 /\ x < width - 1

\* the `result` array after the gradient loops: magnitude at the interior pixels,
\* the 0 it was filled with on the 1-pixel border.  The unit q of the magnitudes
\* is the smallest that keeps the squares of this field's gradients below 2^31.
GradientMagnitudes(data, width, height) ==
    LET In == {c \in (0..(height - 1)) \X (0..(width - 1)) :
                  IsInterior(c[1], c[2], width, height)}
        gx == [c \in In |-> Gradient(data, c[1], c[2], SobelX)]
        gy == [c \in In |-> Gradient(data, c[1], c[2], SobelY)]
        peak == MaxSet(In, [c \in In |-> Max(Abs(gx[c]), Abs(gy[c]))])
        q == (peak \div 32768) + 1
    IN  [y \in 0..(height - 1) |-> [x \in 0..(width - 1) |->
            IF IsInterior(y, x, width, height)
            THEN Magnitude(gx[<<y, x>>], gy[<<y, x>>], q)
            ELSE 0]]

FieldCoords(width, height) == (0..(height - 1)) \X (0..(width - 1))

\* Math.max(...result.map((row) => Math.max(...row)))
MaxMagnitude(mag, width, height) ==
    MaxSet(FieldCoords(width, height),
           [c \in FieldCoords(width, height) |-> mag[c[1]][c[2]]])

\* faulty variant: scaled by 256 instead of 255
NormalizeEdge256(m, maxMagnitude) ==
    IF maxMagnitude = 0 THEN NaN
    ELSE (m * 25600) \div maxMagnitude

\* (result[y][x] / maxMagnitude) * 255, in hundredths; 0 / 0 is NaN
NormalizeEdge(m, maxMagnitude) ==
    IF maxMagnitude = 0 THEN NaN
    ELSE (m * 25500) \div maxMagnitude

\* the normalization loop over every pixel of `result`
Normalize(mag, width, height) ==
    LET maxMagnitude == MaxMagnitude(mag, width, height)
    IN  [y \in 0..(height - 1) |-> [x \in 0..(width - 1) |->
            NormalizeEdge(mag[y][x], maxMagnitude)]]

cannyEdgeDetection(data, width, height) ==
    Normalize(GradientMagnitudes(data, width, height), width, height)

-----------------------------------------------------------------------------
(* src/unnamed/part_001: imageToAscii *)

\* sum of edges[py][px] over the block, in hundredths; NaN once a term is NaN
EdgeSum(edgeField, B) ==
    IF \E c \in B : edgeField[c[1]][c[2]] = NaN THEN NaN
    ELSE SumSet(B, [c \in B |-> edgeField[c[1]][c[2]]])

\* combined = (edgeStrength * 0.7 + brightness * 0.3) / 255;
\* Math.floor(combined * (charSet.length - 3)) + 1; NaN when edgeStrength is NaN
EdgeCharIndex(edgeSum, brightSum, count, len) ==
    IF edgeSum = NaN THEN NaN
    ELSE (((70 * edgeSum + 3 * brightSum) * (len - 3)) \div (2550000 * count)) + 1

\* one iteration of the x loop of imageToAscii (no color is computed)
EdgeCell(image, edgeField, x, y, stepX, stepY, charSet) ==
    LET B == CellBlock(image, x, y, stepX, stepY)
        count == Cardinality(B)
        brightSum == BrightnessSum(image, B)
        isExtreme == IsExtremeBlock(image, B)
        suppressed == Suppressed(isExtreme, brightSum, count)
        charIndex == IF suppressed THEN 0
                     ELSE EdgeCharIndex(EdgeSum(edgeField, B), brightSum, count,
                                        Len(charSet))
    IN  [isExtreme |-> isExtreme, brightSum |-> brightSum, pixelCount |-> count,
         block |-> B,
         suppressed |-> suppressed, charIndex |-> charIndex,
         char |-> IF suppressed THEN " " ELSE CharAt(charSet, charIndex)]

imageToAscii(image, edgeField, width, height, charSet) ==
    LET stepX == StepOf(image.width, width)
        stepY == StepOf(image.height, height)
    IN  [y \in 0..(height - 1) |-> [x \in 0..(width - 1) |->
            EdgeCell(image, edgeField, x, y, stepX, stepY, charSet)]]

-----------------------------------------------------------------------------
(* Frame files: ffmpeg writes frame-%04d.png, numbered from 1 in extraction  *)
(* order; convertFramesToAscii reads fs.readdirSync(tempFramesDir).sort().   *)

\* k.toString(): the decimal digits of k, most significant first
RECURSIVE Digits(_)
Digits(k) == IF k < 10 THEN <<k>> ELSE Append(Digits(k \div 10), k % 10)

\* padStart(len, "0") / %04d: zeros in front up to len digits, never truncated
RECURSIVE PadStart(_, _)
PadStart(ds, len) == IF Len(ds) >= len THEN ds ELSE PadStart(<<0>> \o ds, len)

\* the UTF-16 code units of the name of the k-th extracted frame from its digits
\* up to the "." of ".png" ("frame-" before and "png" after are common to all)
FrameName(k) ==
    LET ds == PadStart(Digits(k), 4)
    IN  [n \in 1..(Len(ds) + 1) |-> IF n <= Len(ds) THEN 48 + ds[n] ELSE 46]

\* the default comparison of Array.prototype.sort: by code units, a proper prefix first
RECURSIVE CodeUnitLess(_, _)
CodeUnitLess(a, b) ==
    IF b = <<>> THEN FALSE
    ELSE IF a = <<>> THEN TRUE
    ELSE IF Head(a) # Head(b) THEN Head(a) < Head(b)
    ELSE CodeUnitLess(Tail(a), Tail(b))

FrameNameLess(j, k) == CodeUnitLess(FrameName(j), FrameName(k))

\* fs.readdirSync(this.tempFramesDir).sort() for n extracted frames
SortedListing(n) == SortSeq([k \in 1..n |-> k], FrameNameLess)

\* `ascii-${i.toString().padStart(4, "0")}.png`, as the digits of its number
AsciiName(n) == PadStart(Digits(n), 4)

-----------------------------------------------------------------------------
(* Inputs *)

SrcSizes == {<<4, 4>>, <<7, 6>>}

Palette == {Black, White, Gray(128), Red, Blue}
UniformColors == Palette \cup {Gray(4), Gray(5), Gray(250), Gray(251)}

Rasters(w, h) ==
    {Uniform(w, h, c) : c \in UniformColors}
    \cup {VSplit(w, h, p[1], p[2]) : p \in {q \in Palette \X Palette : q[1] # q[2]}}
    \cup {Spot(w, h, p[1], p[2]) : p \in {q \in Palette \X Palette : q[1] # q[2]}}

\* batches of one frame, of every size
SingleFrames == UNION {{<<r>> : r \in Rasters(s[1], s[2])} : s \in SrcSizes}

\* two uniform gray frames, the first darker than the second
GrayPairs ==
    {<<Uniform(4, 4, Gray(p[1])), Uniform(4, 4, Gray(p[2]))>> :
        p \in {q \in (0..255) \X (0..255) : q[1] < q[2]}}

CharSetsOf(v) ==
    IF v = "color" THEN {ClassicSet, MinimalSet, ShortSet}
    ELSE {DenseSet, ClassicSet, ShortSet}

OptionSets(v) ==
    [outputWidth : 1..MaxOut, outputHeight : 1..MaxOut,
     charSet : CharSetsOf(v), preserveAspectRatio : BOOLEAN]

\* the same character sets on a MaxOut x MaxOut grid, aspect ratio not preserved
GrayOptionSets(v) ==
    [outputWidth : {MaxOut}, outputHeight : {MaxOut},
     charSet : CharSetsOf(v), preserveAspectRatio : {FALSE}]

-----------------------------------------------------------------------------
(* The converter *)

Started(stage) == [stage |-> stage, status |-> "running"]
Ended(stage, ok) == [stage |-> stage, status |-> IF ok THEN "ok" ELSE "failed"]

\* ran when convertFramesToAscii has been entered
RanToFrameLoop ==
    <<Ended("setupDirectories", TRUE), Ended("downloadVideo", TRUE),
      Ended("extractFrames", TRUE), Started("convertFramesToAscii")>>

\* Opts[v]: the option records tried with version v.  The converter is inside
\* convertFramesToAscii, the directory listing read and sorted, before the first frame.
InitOf(Variants, Opts, Batches) ==
    /\ variant \in Variants
    /\ options \in Opts[variant]
    /\ frames \in Batches
    /\ i = 0
    /\ out = <<>>
    /\ cells = <<>>
    /\ blurred = <<>>
    /\ magnitude = <<>>
    /\ edges = <<>>
    /\ readable = [k \in 1..Len(frames) |-> TRUE]
    /\ listing = SortedListing(Len(frames))
    /\ keepTemp = FALSE
    /\ pc = "frameLoop"
    /\ ran = RanToFrameLoop

\* faulty variant: the file of the previous iteration (index off by one)
FrameAtPrevious(list, n) == list[IF n = 0 THEN 1 ELSE n]

\* frames[i] of the loop: the file converted in iteration i
FrameAt(list, n) == list[n + 1]

Grid(cellGrid, field) ==
    [y \in DOMAIN cellGrid |-> [x \in DOMAIN cellGrid[y] |-> cellGrid[y][x][field]]]

\* main.ts: what iteration n of the loop writes for the frame file f with pixels image
ColorFile(image, opts, n, f) ==
    LET size == GridSize(image, opts)
        grid == imageToAsciiWithColor(image, size.width, size.height, opts.charSet)
    IN  [width |-> size.width, height |-> size.height,
         ascii |-> Grid(grid, "char"),
         colors |-> Grid(grid, "color"),
         name |-> AsciiName(n),
         frame |-> f]

\* main.ts: one iteration of convertFramesToAscii's loop: convertImageToAscii of
\* frames[i] into ascii-000i.png
ConvertColor ==
    /\ variant = "color"
    /\ pc = "frameLoop"
    /\ i < Len(listing)
    /\ readable[FrameAt(listing, i)]
    /\ LET image == frames[FrameAt(listing, i)]
           size == GridSize(image, options)
       IN  /\ cells' = imageToAsciiWithColor(image, size.width, size.height,
                                             options.charSet)
           /\ out' = Append(out, ColorFile(image, options, i, FrameAt(listing, i)))
    /\ i' = i + 1
    /\ UNCHANGED <<variant, options, frames, blurred, magnitude, edges,
                   readable, listing, keepTemp, pc, ran>>

\* part_001: the same iteration with imageToAscii (fontColor glyphs, no cell colors)
ConvertEdge ==
    /\ variant = "edge"
    /\ pc = "frameLoop"
    /\ i < Len(listing)
    /\ readable[FrameAt(listing, i)]
    /\ LET image == frames[FrameAt(listing, i)]
           size == GridSize(image, options)
       IN  /\ blurred' = gaussianBlur(Grayscale(image), image.width, image.height)
           /\ magnitude' = GradientMagnitudes(blurred', image.width, image.height)
           /\ edges' = Normalize(magnitude', image.width, image.height)
           /\ cells' = imageToAscii(image, edges', size.width, size.height,
                                    options.charSet)
           /\ out' = Append(out, [width |-> size.width, height |-> size.height,
                                  ascii |-> Grid(cells', "char"),
                                  colors |-> <<>>,
                                  name |-> AsciiName(i),
                                  frame |-> FrameAt(listing, i)])
    /\ i' = i + 1
    /\ UNCHANGED <<variant, options, frames, readable, listing, keepTemp, pc, ran>>

Next == ConvertColor \/ ConvertEdge

\* main.ts under configurations the constructor accepts as they come (it merges
\* the caller's options over the defaults and validates nothing): character sets
\* of fewer than 3 glyphs, requested sizes above the source's 4 or 7 pixels
TwoGlyphSet == <<"#", " ">>
OneGlyphSet == <<"#">>
EmptySet == <<>>

OverSizes == {5, 8}

ConfigOptionSets ==
    [outputWidth : (1..MaxOut) \cup OverSizes, outputHeight : (1..MaxOut) \cup OverSizes,
     charSet : {ClassicSet, TwoGlyphSet, OneGlyphSet, EmptySet},
     preserveAspectRatio : BOOLEAN]

InitConfig == InitOf({"color"}, [v \in {"color"} |-> ConfigOptionSets], SingleFrames)

SpecConfig == InitConfig /\ [][ConvertColor]_vars

\* main.ts inside convertFramesToAscii on the frames of a long video: ManyFrames
\* one-pixel frames, one glyph each
LongBatch == [k \in 1..ManyFrames |-> Uniform(1, 1, Gray(128))]

LongOptions == [outputWidth |-> 1, outputHeight |-> 1, charSet |-> ClassicSet,
                preserveAspectRatio |-> FALSE]

\* the loop after its first LongDone iterations
InitLong ==
    /\ variant = "color"
    /\ options = LongOptions
    /\ frames = LongBatch
    /\ readable = [k \in 1..Len(frames) |-> TRUE]
    /\ listing = SortedListing(Len(frames))
    /\ i = LongDone
    /\ out = [n \in 1..LongDone |->
                ColorFile(frames[FrameAt(listing, n - 1)], options, n - 1,
                          FrameAt(listing, n - 1))]
    /\ cells = imageToAsciiWithColor(frames[FrameAt(listing, LongDone - 1)], 1, 1,
                                     options.charSet)
    /\ blurred = <<>>
    /\ magnitude = <<>>
    /\ edges = <<>>
    /\ keepTemp = FALSE
    /\ pc = "frameLoop"
    /\ ran = RanToFrameLoop

SpecLong == InitLong /\ [][ConvertColor]_vars

-----------------------------------------------------------------------------
(* convert(): the stages around the frame loop *)

\* faulty variant: a try/finally that still removes the temp directory after a failure
AfterStageCleanupOnError(v, stage, ok, keep) ==
    IF ~ok THEN (IF stage = "cleanup" THEN "thrown" ELSE "cleanup")
    ELSE IF stage = "setupDirectories" THEN "downloadVideo"
    ELSE IF stage = "downloadVideo" THEN "extractFrames"
    ELSE IF stage = "extractFrames" THEN "convertFramesToAscii"
    ELSE IF stage = "convertFramesToAscii" THEN "createVideo"
    ELSE IF stage = "createVideo" /\ v = "color" THEN "addAudio"
    ELSE IF stage \in {"createVideo", "addAudio"}
         THEN (IF keep THEN "returned" ELSE "cleanup")
    ELSE "returned"

\* where convert() goes after a stage: to its next statement when the awaited call
\* resolved, to the catch block (console.error, throw error) when it rejected
AfterStage(v, stage, ok, keep) ==
    IF ~ok THEN "thrown"
    ELSE IF stage = "setupDirectories" THEN "downloadVideo"
    ELSE IF stage = "downloadVideo" THEN "extractFrames"
    ELSE IF stage = "extractFrames" THEN "convertFramesToAscii"
    ELSE IF stage = "convertFramesToAscii" THEN "createVideo"
    ELSE IF stage = "createVideo" /\ v = "color" THEN "addAudio"
    ELSE IF stage \in {"createVideo", "addAudio"}
         THEN (IF keep THEN "returned" ELSE "cleanup")
    ELSE "returned"

\* a stage that is one awaited call (fs or exec), which resolves or rejects
RunStage(stage) ==
    /\ pc = stage
    /\ \E ok \in BOOLEAN :
          /\ pc' = AfterStage(variant, stage, ok, keepTemp)
          /\ ran' = Append(ran, Ended(stage, ok))
    /\ UNCHANGED <<variant, options, frames, i, out, cells, blurred, magnitude, edges,
                   readable, listing, keepTemp>>

SetupDirectories == ran = <<>> /\ RunStage("setupDirectories")
DownloadVideo == Len(ran) = 1 /\ RunStage("downloadVideo")
\* ffmpeg over asciiFramesDir/ascii-%04d.png
CreateVideo == i = Len(listing) /\ RunStage("createVideo")
\* main.ts lines 68-104: the audio download and the mux, two awaited exec calls
AddAudio == variant = "color" /\ RunStage("addAudio")
\* skipped when options.tempDir includes "keep-temp"
Cleanup == ~keepTemp /\ RunStage("cleanup")

RunRasters ==
    {Uniform(4, 4, Gray(128)), Uniform(7, 6, Gray(128)), Spot(7, 6, Gray(128), White)}

\* what ffmpeg can leave in tempFramesDir: up to MaxFrames frame files
RunBatches == UNION {[1..n -> RunRasters] : n \in 0..MaxFrames}

\* which of n frame files loadImage can read: all of them, or all but one
ReadableFlags(n) == {[k \in 1..n |-> k # bad] : bad \in 0..n}

\* extractFrames: ffmpeg writes the frame files; main.ts throws when it wrote none,
\* part_001 does not look
ExtractFrames ==
    /\ pc = "extractFrames"
    /\ \E ok \in BOOLEAN, batch \in RunBatches :
          /\ frames' = batch
          /\ \E flags \in ReadableFlags(Len(batch)) : readable' = flags
          /\ LET resolved == ok /\ (variant = "color" => Len(batch) > 0)
             IN  /\ pc' = AfterStage(variant, "extractFrames", resolved, keepTemp)
                 /\ ran' = Append(ran, Ended("extractFrames", resolved))
    /\ UNCHANGED <<variant, options, i, out, cells, blurred, magnitude, edges,
                   listing, keepTemp>>

\* convertFramesToAscii up to its loop: frames = fs.readdirSync(...).sort(), i = 0
ListFrames ==
    /\ pc = "convertFramesToAscii"
    /\ listing' = SortedListing(Len(frames))
    /\ i' = 0
    /\ pc' = "frameLoop"
    /\ ran' = Append(ran, Started("convertFramesToAscii"))
    /\ UNCHANGED <<variant, options, frames, out, cells, blurred, magnitude, edges,
                   readable, keepTemp>>

\* loadImage(inputPath) rejects: nothing in convertImageToAscii or in the loop of
\* convertFramesToAscii catches it, so it reaches the catch block of convert()
ConvertFail ==
    /\ pc = "frameLoop"
    /\ i < Len(listing)
    /\ ~readable[FrameAt(listing, i)]
    /\ pc' = AfterStage(variant, "convertFramesToAscii", FALSE, keepTemp)
    /\ ran' = [ran EXCEPT ![Len(ran)] = Ended("convertFramesToAscii", FALSE)]
    /\ UNCHANGED <<variant, options, frames, i, out, cells, blurred, magnitude, edges,
                   readable, listing, keepTemp>>

\* the loop condition i < frames.length fails: convertFramesToAscii resolves
FinishFrames ==
    /\ pc = "frameLoop"
    /\ i = Len(listing)
    /\ pc' = AfterStage(variant, "convertFramesToAscii", TRUE, keepTemp)
    /\ ran' = [ran EXCEPT ![Len(ran)] = Ended("convertFramesToAscii", TRUE)]
    /\ UNCHANGED <<variant, options, frames, i, out, cells, blurred, magnitude, edges,
                   readable, listing, keepTemp>>

\* square requests, with the character set each version is run with (main.ts
\* line 414, part_001 line 398)
RunOptionSets(v) ==
    {o \in [outputWidth : 1..MaxOut, outputHeight : 1..MaxOut,
            charSet : IF v = "color" THEN {ClassicSet} ELSE {DenseSet},
            preserveAspectRatio : BOOLEAN] : o.outputWidth = o.outputHeight}

\* the state after the constructor, before convert()
InitRun ==
    /\ variant \in {"color", "edge"}
    /\ options \in RunOptionSets(variant)
    /\ keepTemp \in BOOLEAN
    /\ frames = <<>>
    /\ readable = <<>>
    /\ listing = <<>>
    /\ i = 0
    /\ out = <<>>
    /\ cells = <<>>
    /\ blurred = <<>>
    /\ magnitude = <<>>
    /\ edges = <<>>
    /\ pc = "setupDirectories"
    /\ ran = <<>>

NextRun ==
    \/ SetupDirectories
    \/ DownloadVideo
    \/ ExtractFrames
    \/ ListFrames
    \/ ConvertColor
    \/ ConvertEdge
    \/ ConvertFail
    \/ FinishFrames
    \/ CreateVideo
    \/ AddAudio
    \/ Cleanup

SpecRun == InitRun /\ [][NextRun]_vars

Init == InitOf({"color", "edge"}, [v \in {"color", "edge"} |-> OptionSets(v)], SingleFrames)

Spec == Init /\ [][Next]_vars

\* main.ts alone, on batches of two uniform gray frames
InitGray == InitOf({"color"}, [v \in {"color"} |-> GrayOptionSets(v)], GrayPairs)

SpecGray == InitGray /\ [][ConvertColor]_vars

-----------------------------------------------------------------------------
(* Vocabulary of the properties.  Blocks, means and flags are restated here  *)
(* from the frame's pixels, not read from the converter's locals.            *)

Converted == 1..Len(out)

\* the cells <<y, x>> of the k-th written grid
CellsOf(k) == (0..(out[k].height - 1)) \X (0..(out[k].width - 1))

PixelAt(k, p) == frames[k].px[p[1]][p[2]]

PixelsOfFrame(k) == (0..(frames[k].height - 1)) \X (0..(frames[k].width - 1))

\* [x stepX, x stepX + stepX) x [y stepY, y stepY + stepY), clipped to the frame
BlockOf(k, c) ==
    LET stepX == frames[k].width \div out[k].width
        stepY == frames[k].height \div out[k].height
    IN  {p \in PixelsOfFrame(k) :
            /\ c[1] * stepY <= p[1] /\ p[1] < c[1] * stepY + stepY
            /\ c[2] * stepX <= p[2] /\ p[2] < c[2] * stepX + stepX}

GlyphOf(k, c) == out[k].ascii[c[1]][c[2]]
ColorOf(k, c) == out[k].colors[c[1]][c[2]]

AllPureBlackOrWhite(k, S) ==
    \A p \in S : PixelAt(k, p) = <<0, 0, 0>> \/ PixelAt(k, p) = <<255, 255, 255>>

\* 1000 times the sum of the luminance of the pixels of S
LumaSum(k, S) ==
    SumSet(S, [p \in S |-> 299 * PixelAt(k, p)[1] + 587 * PixelAt(k, p)[2]
                           + 114 * PixelAt(k, p)[3]])

\* mean luminance of S < 5 or > 250
OutsideThresholds(k, S) ==
    \/ LumaSum(k, S) < 5000 * Cardinality(S)
    \/ LumaSum(k, S) > 250000 * Cardinality(S)

\* the mean of channel ch over S, rounded to the nearest integer (half up)
RoundedMean(k, S, ch) ==
    LET total == SumSet(S, [p \in S |-> PixelAt(k, p)[ch]])
        n == Cardinality(S)
    IN  CHOOSE m \in 0..255 : 2 * n * m <= 2 * total + n /\ 2 * total + n < 2 * n * (m + 1)

MeanColor(k, S) ==
    [r |-> RoundedMean(k, S, 1), g |-> RoundedMean(k, S, 2), b |-> RoundedMean(k, S, 3)]

-----------------------------------------------------------------------------
(* C1: for a source raster in which every pixel is (0,0,0) or (255,255,255), *)
(* every cell of the glyph grid is the blank glyph, in both versions and for *)
(* every grid size and character set.                                        *)
C1_BlackWhiteRasterAllBlank ==
    \A k \in Converted :
        AllPureBlackOrWhite(k, PixelsOfFrame(k))
            => \A c \in CellsOf(k) : GlyphOf(k, c) = " "

\* an edge-version conversion of a black-and-white raster with a cell whose block
\* holds both black and white pixels (its mean luminance is far from the thresholds)
C1_Witness ==
    \E k \in Converted :
        /\ variant = "edge"
        /\ AllPureBlackOrWhite(k, PixelsOfFrame(k))
        /\ \E c \in CellsOf(k) :
              /\ \E p \in BlockOf(k, c) : PixelAt(k, p) = <<0, 0, 0>>
              /\ \E p \in BlockOf(k, c) : PixelAt(k, p) = <<255, 255, 255>>
              /\ ~OutsideThresholds(k, BlockOf(k, c))
              /\ GlyphOf(k, c) = " "

-----------------------------------------------------------------------------
(* C2: suppression rule of imageToAsciiWithColor.  A cell whose block is all *)
(* pure black/white pixels, or whose mean luminance is < 5 or > 250, has the *)
(* blank glyph and still the rounded mean R, G, B of its block as its color; *)
(* no glyph index is computed for it.                                        *)
C2_SuppressionRule ==
    variant = "color" =>
        \A k \in Converted : \A c \in CellsOf(k) :
            LET B == BlockOf(k, c)
            IN  (B # {} /\ (AllPureBlackOrWhite(k, B) \/ OutsideThresholds(k, B)))
                    => /\ GlyphOf(k, c) = " "
                       /\ ColorOf(k, c) = MeanColor(k, B)
                       /\ k = Len(out) => /\ cells[c[1]][c[2]].suppressed
                                          /\ cells[c[1]][c[2]].charIndex = 0

\* a suppressed cell of mixed black and white pixels: blank, its color a gray
C2_Witness ==
    /\ variant = "color"
    /\ \E k \in Converted : \E c \in CellsOf(k) :
          /\ AllPureBlackOrWhite(k, BlockOf(k, c))
          /\ ~OutsideThresholds(k, BlockOf(k, c))
          /\ GlyphOf(k, c) = " "
          /\ ColorOf(k, c).r > 0 /\ ColorOf(k, c).r < 255
          /\ ColorOf(k, c).g = ColorOf(k, c).r /\ ColorOf(k, c).b = ColorOf(k, c).r

-----------------------------------------------------------------------------
\* a cell the suppression rule does not cover: a non-empty block with a pixel that
\* is neither pure black nor pure white, and mean luminance in [5, 250]
NotCoveredByRule(k, c) ==
    /\ BlockOf(k, c) # {}
    /\ ~AllPureBlackOrWhite(k, BlockOf(k, c))
    /\ ~OutsideThresholds(k, BlockOf(k, c))

\* the position of a glyph in the character set (the sets have distinct glyphs)
GlyphIndex(k, c) ==
    CHOOSE n \in 0..(Len(options.charSet) - 1) : options.charSet[n + 1] = GlyphOf(k, c)

(* C3: for every cell that is not suppressed the glyph index lies in        *)
(* 1..len-2, in both versions, and the glyph is that element of the set.    *)
C3_IndexInInterior ==
    Len(out) >= 1 =>
        \A c \in CellsOf(Len(out)) :
            NotCoveredByRule(Len(out), c)
                => /\ cells[c[1]][c[2]].charIndex \in 1..(Len(options.charSet) - 2)
                   /\ GlyphOf(Len(out), c)
                          = options.charSet[cells[c[1]][c[2]].charIndex + 1]

-----------------------------------------------------------------------------
IsUniformGray(k, g) == \A p \in PixelsOfFrame(k) : PixelAt(k, p) = <<g, g, g>>

GrayLevelOf(k) == PixelAt(k, <<0, 0>>)[1]

(* C4: brightness-only selection is monotonic.  For two uniform gray        *)
(* rasters with levels g1 < g2, both in [5, 250], converted with the same   *)
(* character set and grid, the glyph index of every cell of the first is <= *)
(* the glyph index of every cell of the second.                             *)
C4_BrightnessMonotonic ==
    (variant = "color" /\ Len(out) = 2) =>
        LET g1 == GrayLevelOf(1)
            g2 == GrayLevelOf(2)
        IN  (/\ IsUniformGray(1, g1) /\ IsUniformGray(2, g2)
             /\ 5 <= g1 /\ g1 < g2 /\ g2 <= 250)
                => \A c1 \in CellsOf(1) : \A c2 \in CellsOf(2) :
                       GlyphIndex(1, c1) <= GlyphIndex(2, c2)

\* two gray levels of the range that take different glyphs of the classic set
C4_Witness ==
    /\ variant = "color" /\ Len(out) = 2
    /\ options.charSet = ClassicSet
    /\ IsUniformGray(1, GrayLevelOf(1)) /\ IsUniformGray(2, GrayLevelOf(2))
    /\ 5 <= GrayLevelOf(1) /\ GrayLevelOf(1) < GrayLevelOf(2) /\ GrayLevelOf(2) <= 250
    /\ \E c1 \in CellsOf(1) : \E c2 \in CellsOf(2) :
          /\ GlyphIndex(1, c1) = 1 /\ GlyphIndex(2, c2) = 8

-----------------------------------------------------------------------------
(* C5: a cell whose block consists of pixels of one color (r, g, b) has     *)
(* exactly (r, g, b) as its recorded color.                                 *)
C5_UniformBlockColor ==
    variant = "color" =>
        \A k \in Converted : \A c \in CellsOf(k) :
            \A p0 \in BlockOf(k, c) :
                (\A p \in BlockOf(k, c) : PixelAt(k, p) = PixelAt(k, p0))
                    => ColorOf(k, c) = [r |-> PixelAt(k, p0)[1],
                                        g |-> PixelAt(k, p0)[2],
                                        b |-> PixelAt(k, p0)[3]]

\* a red | blue raster: a left cell of color (255,0,0), a right cell of (0,0,255)
C5_Witness ==
    /\ variant = "color"
    /\ \E k \in Converted : \E c1 \in CellsOf(k) : \E c2 \in CellsOf(k) :
          /\ c1[2] < c2[2]
          /\ \A p \in BlockOf(k, c1) : PixelAt(k, p) = <<255, 0, 0>>
          /\ \A p \in BlockOf(k, c2) : PixelAt(k, p) = <<0, 0, 255>>
          /\ ColorOf(k, c1) = [r |-> 255, g |-> 0, b |-> 0]
          /\ ColorOf(k, c2) = [r |-> 0, g |-> 0, b |-> 255]

-----------------------------------------------------------------------------
OnlyLastIsSpace(cs) == \A n \in 1..Len(cs) : (cs[n] = " ") <=> (n = Len(cs))

(* C6: no suppression outside the rule.  With a character set whose only    *)
(* space is its last glyph, a cell whose block has a pixel that is neither  *)
(* pure black nor pure white and whose mean luminance is in [5, 250] never  *)
(* gets the blank glyph, in either version.                                 *)
C6_NoSuppressionOutsideRule ==
    OnlyLastIsSpace(options.charSet) =>
        \A k \in Converted : \A c \in CellsOf(k) :
            NotCoveredByRule(k, c) => GlyphOf(k, c) # " "

\* the red | blue raster converted: no cell of the grid is blank
C6_Witness ==
    \E k \in Converted :
        /\ \A p \in PixelsOfFrame(k) :
              PixelAt(k, p) = <<255, 0, 0>> \/ PixelAt(k, p) = <<0, 0, 255>>
        /\ \E p \in PixelsOfFrame(k) : PixelAt(k, p) = <<255, 0, 0>>
        /\ \E p \in PixelsOfFrame(k) : PixelAt(k, p) = <<0, 0, 255>>
        /\ out[k].width = 2 /\ out[k].height = 2
        /\ \A c \in CellsOf(k) : GlyphOf(k, c) \notin {" ", "undefined"}

-----------------------------------------------------------------------------
\* the rows and columns of the k-th written grid are exactly h and w
HasShape(k, w, h) ==
    /\ DOMAIN out[k].ascii = 0..(h - 1)
    /\ \A y \in 0..(h - 1) : DOMAIN out[k].ascii[y] = 0..(w - 1)

IsAllBlack4x4(k) ==
    /\ frames[k].width = 4 /\ frames[k].height = 4
    /\ \A p \in PixelsOfFrame(k) : PixelAt(k, p) = <<0, 0, 0>>

-----------------------------------------------------------------------------
EdgeConverted == variant = "edge" /\ Len(out) >= 1

\* the pixels <<y, x>> of the scalar fields of the last conversion
FieldPixels == PixelsOfFrame(Len(out))

(* C8: for a raster that is (128,128,128) everywhere the edge field after   *)
(* blur and Sobel is zero at every pixel and every cell of the edge-aware   *)
(* grid has one and the same non-blank glyph index.                         *)
C8_UniformGrayHasNoEdges ==
    (EdgeConverted /\ IsUniformGray(Len(out), 128)) =>
        /\ \A p \in FieldPixels : edges[p[1]][p[2]] = 0
        /\ \E n \in 1..(Len(options.charSet) - 2) :
              \A c \in CellsOf(Len(out)) :
                  /\ cells[c[1]][c[2]].charIndex = n
                  /\ GlyphOf(Len(out), c) = options.charSet[n + 1]

-----------------------------------------------------------------------------
(* C9: when every gradient magnitude before normalization is 0, the edge    *)
(* field returned is 0 at every pixel (no NaN), and the glyph index of      *)
(* every cell that is not suppressed is a defined index.                    *)
C9_FlatFieldIsZero ==
    (EdgeConverted /\ \A p \in FieldPixels : magnitude[p[1]][p[2]] = 0) =>
        /\ \A p \in FieldPixels : edges[p[1]][p[2]] = 0
        /\ \A c \in CellsOf(Len(out)) :
              NotCoveredByRule(Len(out), c)
                  => cells[c[1]][c[2]].charIndex \in 0..(Len(options.charSet) - 1)

-----------------------------------------------------------------------------
(* C10: when some gradient magnitude before normalization is not 0, every   *)
(* value of the edge field is in [0, 255] and its maximum is exactly 255    *)
(* (the field is in hundredths: 25500).                                     *)
C10_EdgeNormalization ==
    (EdgeConverted /\ \E p \in FieldPixels : magnitude[p[1]][p[2]] # 0) =>
        /\ \A p \in FieldPixels : edges[p[1]][p[2]] \in 0..25500
        /\ \E p \in FieldPixels : edges[p[1]][p[2]] = 25500

\* a field with a largest pixel, a pixel strictly between 0 and 255 whose magnitude
\* is strictly between 0 and the largest, and a zero border
C10_Witness ==
    /\ EdgeConverted
    /\ \E p \in FieldPixels : edges[p[1]][p[2]] = 25500
    /\ \E p \in FieldPixels : \E q \in FieldPixels :
          /\ 0 < magnitude[p[1]][p[2]] /\ magnitude[p[1]][p[2]] < magnitude[q[1]][q[2]]
          /\ 0 < edges[p[1]][p[2]] /\ edges[p[1]][p[2]] < 25500
    /\ \E p \in FieldPixels : edges[p[1]][p[2]] = 0

-----------------------------------------------------------------------------
(* C11: the field returned by gaussianBlur has a value range no wider than   *)
(* its input's: min(input) <= every output value <= max(input), the output's *)
(* 2-pixel border included.  (blurred is in 1/256 of the unit of the input.) *)

GrayscalePixels(k) == {299 * PixelAt(k, p)[1] + 587 * PixelAt(k, p)[2]
                       + 114 * PixelAt(k, p)[3] : p \in PixelsOfFrame(k)}

C11_BlurWithinInputRange ==
    EdgeConverted =>
        \A p \in FieldPixels :
            /\ \E lo \in GrayscalePixels(Len(out)) : 256 * lo <= blurred[p[1]][p[2]]
            /\ \E hi \in GrayscalePixels(Len(out)) : blurred[p[1]][p[2]] <= 256 * hi

\* side fact: the processed pixels (2 <= y < height - 2, 2 <= x < width - 2) do
\* stay within the input's range
C11_ProcessedWithinInputRange ==
    EdgeConverted =>
        \A p \in FieldPixels :
            (p[1] >= 2 /\ p[1] < frames[Len(out)].height - 2
             /\ p[2] >= 2 /\ p[2] < frames[Len(out)].width - 2)
            => /\ \E lo \in GrayscalePixels(Len(out)) : 256 * lo <= blurred[p[1]][p[2]]
               /\ \E hi \in GrayscalePixels(Len(out)) : blurred[p[1]][p[2]] <= 256 * hi

-----------------------------------------------------------------------------
(* C12: cell locality.  For two source rasters of the same size converted    *)
(* with the same options that agree on every pixel of the source block of    *)
(* cell (x,y), the cell has the same character and the same color in both    *)
(* grids, whatever the rasters are outside the block.                        *)

SameSize(j, k) ==
    /\ frames[j].width = frames[k].width
    /\ frames[j].height = frames[k].height

AgreeOn(j, k, S) == \A p \in S : PixelAt(j, p) = PixelAt(k, p)

C12_CellLocality ==
    \A j \in Converted : \A k \in Converted :
        SameSize(j, k) =>
            \A c \in CellsOf(j) :
                AgreeOn(j, k, BlockOf(j, c)) =>
                    /\ GlyphOf(j, c) = GlyphOf(k, c)
                    /\ variant = "color" => ColorOf(j, c) = ColorOf(k, c)

\* side fact: the brightness-only conversion of main.ts is local
C12_ColorVersionIsLocal == variant = "color" => C12_CellLocality

-----------------------------------------------------------------------------
(* C13: a configuration error - a character set of fewer than 3 glyphs, a    *)
(* non-positive requested dimension, or requested dimensions that give a     *)
(* sampling step floor(srcWidth/outputWidth) or floor(srcHeight/outputHeight)*)
(* of 0 - is fatal before any frame is converted: under such a configuration *)
(* no glyph grid and no output frame file is ever produced.                  *)

ZeroStep(k) ==
    \/ frames[k].width \div options.outputWidth = 0
    \/ frames[k].height \div options.outputHeight = 0

IsConfigurationError ==
    \/ Len(options.charSet) < 3
    \/ options.outputWidth <= 0
    \/ options.outputHeight <= 0
    \/ \E k \in 1..Len(frames) : options.outputWidth > 0 /\ options.outputHeight > 0
                                 /\ ZeroStep(k)

C13_ConfigErrorsProduceNothing ==
    IsConfigurationError => (out = <<>> /\ cells = <<>>)

-----------------------------------------------------------------------------
(* C14: per-frame failure isolation.  When the conversion of a frame fails   *)
(* (unreadable or corrupt image) only that frame is abandoned: once the      *)
(* frame stage is over it has not failed, and every other frame of the batch *)
(* has been converted and written, so that the run goes on to createVideo.   *)

FrameStageOver ==
    \E r \in 1..Len(ran) :
        ran[r].stage = "convertFramesToAscii" /\ ran[r].status # "running"

WrittenFor(j) == \E k \in Converted : out[k].frame = j

C14_FrameFailureIsolated ==
    FrameStageOver =>
        /\ \A r \in 1..Len(ran) : ran[r].stage = "convertFramesToAscii" => ran[r].status = "ok"
        /\ \A j \in 1..Len(frames) : readable[j] => WrittenFor(j)

-----------------------------------------------------------------------------
(* C15: frame independence.  The output written for a frame depends only on  *)
(* that frame's pixels and on the converter options, and no conversion       *)
(* changes the options: two frame files with the same pixels get the same    *)
(* glyph grid (size, characters and colors) wherever they stand in the       *)
(* batch and whatever was converted before them.                             *)

\* the grid of the k-th output file, without its name
GridOf(k) == [width |-> out[k].width, height |-> out[k].height,
              ascii |-> out[k].ascii, colors |-> out[k].colors]

\* the pixels of the k-th file of the sorted listing
ListedFrame(k) == frames[listing[k]]

SameFrameSameGrid ==
    \A j \in Converted : \A k \in Converted :
        ListedFrame(j) = ListedFrame(k) => GridOf(j) = GridOf(k)

C15_FrameIndependence == []SameFrameSameGrid /\ [][options' = options]_vars

\* the same frame first and third, a frame with another grid between them
C15_Witness ==
    /\ Len(out) = 3
    /\ ListedFrame(1) = ListedFrame(3)
    /\ ListedFrame(2) # ListedFrame(1)
    /\ GridOf(2) # GridOf(1)
    /\ GridOf(3) = GridOf(1)

-----------------------------------------------------------------------------
(* C16: convert() runs its stages in the fixed order setup directories,      *)
(* download video, extract frames, convert frames to ASCII, create video,    *)
(* add audio, cleanup (part_001 has no audio stage).  A stage starts only    *)
(* after the previous one completed successfully; when a stage fails no      *)
(* later stage runs, cleanup included, and the error is rethrown.            *)

StageOrder ==
    IF variant = "color"
    THEN <<"setupDirectories", "downloadVideo", "extractFrames", "convertFramesToAscii",
           "createVideo", "addAudio", "cleanup">>
    ELSE <<"setupDirectories", "downloadVideo", "extractFrames", "convertFramesToAscii",
           "createVideo", "cleanup">>

StartedInOrder ==
    /\ Len(ran) <= Len(StageOrder)
    /\ \A k \in 1..Len(ran) : ran[k].stage = StageOrder[k]

FailedLast == Len(ran) > 0 /\ ran[Len(ran)].status = "failed"

C16_StagesInOrder ==
    /\ StartedInOrder
    /\ \A k \in 1..(Len(ran) - 1) : ran[k].status = "ok"
    /\ pc = "thrown" <=> FailedLast
    /\ pc = "returned" =>
          /\ \A k \in 1..Len(ran) : ran[k].status = "ok"
          /\ Len(ran) = IF keepTemp THEN Len(StageOrder) - 1 ELSE Len(StageOrder)

\* createVideo failed after four successful stages: the error is rethrown and
\* neither the audio stage nor cleanup has run
C16_Witness ==
    /\ pc = "thrown"
    /\ Len(ran) = 5
    /\ ran[5] = [stage |-> "createVideo", status |-> "failed"]
    /\ Len(out) >= 1

-----------------------------------------------------------------------------
(* C17: convertFramesToAscii writes exactly one output image per input frame *)
(* file, and the output numbered i (ascii-000i.png, i from 0 with no gaps)   *)
(* is the conversion of the i-th input frame in extraction order, for every  *)
(* number of extracted frames.                                               *)

\* the number an output file name stands for
RECURSIVE ValueOfDigits(_)
ValueOfDigits(ds) ==
    IF ds = <<>> THEN 0 ELSE 10 * ValueOfDigits(SubSeq(ds, 1, Len(ds) - 1)) + ds[Len(ds)]

C17_OutputsInExtractionOrder ==
    /\ Len(out) <= Len(frames)
    /\ (pc = "frameLoop" /\ i = Len(listing) /\ \A k \in 1..Len(frames) : readable[k])
          => Len(out) = Len(frames)
    /\ \A k \in Converted :
          /\ ValueOfDigits(out[k].name) = k - 1
          /\ out[k].frame = k

-----------------------------------------------------------------------------
(* C18: with preserveAspectRatio true the effective grid computed from the   *)
(* requested outputWidth/outputHeight and the source's size always has       *)
(* 1 <= height <= outputHeight and 1 <= width <= outputWidth.                *)

C18_EffectiveGridWithinRequest ==
    options.preserveAspectRatio =>
        \A k \in Converted :
            /\ 1 <= out[k].height /\ out[k].height <= options.outputHeight
            /\ 1 <= out[k].width /\ out[k].width <= options.outputWidth

\* side fact: the effective grid never exceeds the request
C18_EffectiveGridAtMostRequest ==
    \A k \in Converted :
        /\ out[k].height <= options.outputHeight
        /\ out[k].width <= options.outputWidth

-----------------------------------------------------------------------------
(* C19: block geometry.  With stepX = floor(srcWidth/outputWidth) >= 1 and   *)
(* stepY = floor(srcHeight/outputHeight) >= 1, cell (x,y) samples exactly    *)
(* the pixels of [x stepX, x stepX + stepX) x [y stepY, y stepY + stepY);    *)
(* every sampled pixel is inside the source raster, each cell samples        *)
(* stepX stepY >= 1 pixels, and two distinct cells share no pixel.           *)

\* the grid and the frame of the last conversion
LastK == Len(out)
LastStepX == frames[LastK].width \div out[LastK].width
LastStepY == frames[LastK].height \div out[LastK].height

Rectangle(c) ==
    ((c[1] * LastStepY)..(c[1] * LastStepY + LastStepY - 1))
    \X ((c[2] * LastStepX)..(c[2] * LastStepX + LastStepX - 1))

SampledBy(c) == cells[c[1]][c[2]].block

HasCells == Len(out) >= 1 /\ out[LastK].width >= 1 /\ out[LastK].height >= 1

C19_BlockGeometry ==
    (HasCells /\ LastStepX >= 1 /\ LastStepY >= 1) =>
        /\ \A c \in CellsOf(LastK) :
              /\ SampledBy(c) = Rectangle(c)
              /\ SampledBy(c) \subseteq PixelsOfFrame(LastK)
              /\ Cardinality(SampledBy(c)) = LastStepX * LastStepY
              /\ cells[c[1]][c[2]].pixelCount = LastStepX * LastStepY
              /\ LastStepX * LastStepY >= 1
        /\ \A c \in CellsOf(LastK) : \A d \in CellsOf(LastK) :
              c # d => SampledBy(c) \cap SampledBy(d) = {}

\* a 7x6 frame on a 2x2 grid: 3x3 blocks, the last column of pixels in no block
C19_Witness ==
    /\ HasCells
    /\ HasShape(LastK, 2, 2)
    /\ frames[LastK].width = 7 /\ frames[LastK].height = 6
    /\ LastStepX = 3 /\ LastStepY = 3
    /\ SampledBy(<<1, 1>>) = (3..5) \X (3..5)
    /\ \A c \in CellsOf(LastK) : <<0, 6>> \notin SampledBy(c)

=============================================================================
